---- MODULE Spec2Model ----
(***************************************************************************)
(* Model of the NIST compliance workflow of src/main.py: the retrieval     *)
(* aggregator (search_nist_updates and its three adapters), the content    *)
(* extractor, the keyword relevance scorer and filter, and run_workflow.   *)
(*                                                                         *)
(* Documents are Python dicts: records whose domain is the set of keys     *)
(* present.  Text is carried as TLA+ strings and the string operations of  *)
(* the code (slicing, lower(), `in`) are computed character by character.  *)
(*                                                                         *)
(* Scores are floats in the code.  Every score the scorer produces is      *)
(* matches / 30, possibly floored at 0.8, times 3, capped at 1.0; the      *)
(* model carries a score as its numerator over len(keywords) = 30, so      *)
(* 0.7 is 21, 0.8 is 24 and 1.0 is 30.  In IEEE double arithmetic          *)
(* m / 30 * 3 differs from m / 10 by one ulp for m = 3, 6, 9 only, and     *)
(* 7 / 30 * 3 evaluates to exactly the double 0.7, so every comparison     *)
(* the code makes (> 0.7, min with 1.0, max with 0.8) has the same         *)
(* outcome on the numerators.                                              *)
(***************************************************************************)
EXTENDS Integers, Sequences, FiniteSets, TLC

VARIABLES
    doc,            \* scorer: the article dict handed to _keyword_based_relevance
    final_score,    \* scorer: the value returned (numerator over 30), -1 before the call
    matches_before, \* scorer: `matches` of the call on the original article
    matches_after,  \* scorer: `matches` of the call after one keyword was added to content
    added_at,       \* scorer: where the keyword was added: "end" | "inside", -1 before
    spc,            \* scorer: "ready" | "scored" | "added" | "assessed"
    topic,          \* request: the topic, NoneValue when not given
    max_results,    \* request: max_articles, handed to search_nist_updates as max_results
    google_api_key,     \* Config.GOOGLE_API_KEY is set
    search_engine_id,   \* Config.SEARCH_ENGINE_ID is set
    pc,             \* position of the invocation: "primary" | "google" | "demo" |
                    \* "searched" | "extract" | "extracted" | "filtered" | "summary" | "publish" |
                    \* "done" | "idle"
    term_i,         \* search_nist_updates: index of the next term of search_terms[:3]
    articles,       \* the article dicts of the invocation, in the order of the list
                    \* search_nist_updates builds; the dicts are shared by reference with
                    \* the later lists, which hold indices into this sequence
    calls,          \* the adapter calls made so far, in order
    art_i,          \* extract_content: index of the next article of the loop
    articles_with_content,  \* extracted_articles: indices into articles, in list order
    fetched,        \* the urls extract_content has requested so far, in order
    relevant_articles,      \* filtered_articles: indices into articles, in list order
    summary,        \* the report generate_summary returned, as its lines; <<>> before
    github_client,  \* agent.github_client is set
    response,       \* what run_workflow hands its caller: a WorkflowResponse or a
                    \* raised HTTPException, NoResponse until then
    openai_client,  \* agent.openai_client is set
    llm_calls,      \* the calls of openai_client.chat.completions.create made so far
    heap,           \* concurrent invocations: the article dicts created so far, by
                    \* object identity (the position in this sequence)
    inv             \* concurrent invocations: per invocation, its position and its
                    \* local lists, which hold identities of heap

scorer_vars == <<doc, final_score, matches_before, matches_after, added_at, spc>>

request_vars == <<topic, max_results, google_api_key, search_engine_id>>

search_vars == <<pc, term_i, articles, calls>>

workflow_vars ==
    <<art_i, articles_with_content, fetched, relevant_articles, summary, github_client,
      response>>

llm_vars == <<openai_client, llm_calls>>

conc_vars == <<heap, inv>>

vars == <<scorer_vars, request_vars, search_vars, workflow_vars, llm_vars, conc_vars>>

(***************************************************************************)
(* Python string and dict primitives                                       *)
(***************************************************************************)
Min(a, b) == IF a <= b THEN a ELSE b

Max(a, b) == IF a >= b THEN a ELSE b

\* s[:n] for n >= 0
SliceTo(s, n) == SubSeq(s, 1, Min(n, Len(s)))

\* s[n:] for n >= 0
SliceFrom(s, n) == SubSeq(s, Min(n, Len(s)) + 1, Len(s))

UpperLetters == "ABCDEFGHIJKLMNOPQRSTUVWXYZ"

LowerLetters == "abcdefghijklmnopqrstuvwxyz"

\* the lower-case letter of each upper-case letter
LowerOf ==
    [c \in {SubSeq(UpperLetters, i, i) : i \in 1..Len(UpperLetters)} |->
        LET i == CHOOSE i \in 1..Len(UpperLetters) : SubSeq(UpperLetters, i, i) = c
        IN  SubSeq(LowerLetters, i, i)]

\* str.lower() of a one-character string
LowerChar(c) == IF c \in DOMAIN LowerOf THEN LowerOf[c] ELSE c

\* str.lower(), by halves so that long strings do not nest deeply
RECURSIVE Lower(_)
Lower(s) ==
    IF Len(s) = 0 THEN s
    ELSE IF Len(s) = 1 THEN LowerChar(s)
    ELSE LET h == Len(s) \div 2
         IN  Lower(SubSeq(s, 1, h)) \o Lower(SubSeq(s, h + 1, Len(s)))

\* k in t
Contains(k, t) ==
    \E i \in 1..(Len(t) - Len(k) + 1) : SubSeq(t, i, i + Len(k) - 1) = k

\* article.get(key, default)
Get(article, key, default) ==
    IF key \in DOMAIN article THEN article[key] ELSE default

(***************************************************************************)
(* Relevance scorer                                                        *)
(***************************************************************************)
keywords ==
    << "software", "development", "sdlc", "ci/cd", "devops", "pipeline",
       "container", "cloud", "security", "secure", "sast", "dast", "sbom",
       "supply chain", "cui", "pii", "authentication", "access", "control",
       "nist", "framework", "cybersecurity", "compliance", "controls",
       "sp 800", "800-53", "800-171", "800-218", "ssdf", "guidance" >>

\* content[:1000]
ScoredContentChars == 1000

\* 0.8 as a numerator over len(keywords)
DemoFloor == 24

\* the boost factor in min(score * 3, 1.0)
ScoreBoost == 3

\* 1.0 as a numerator over len(keywords)
ScoreOne == Len(keywords)

\* a scorer that keeps the last 1000 characters of the content instead of the first
ScoredTextTail(article) ==
    LET content == Get(article, "content", "")
    IN  Lower(Get(article, "title", "") \o " " \o Get(article, "summary", "") \o " "
              \o SliceFrom(content, Max(Len(content) - ScoredContentChars, 0)))

\* text = f"{title} {summary} {content[:1000]}".lower()
ScoredText(article) ==
    Lower(Get(article, "title", "") \o " " \o Get(article, "summary", "") \o " "
          \o SliceTo(Get(article, "content", ""), ScoredContentChars))

\* matches = sum(1 for keyword in keywords if keyword in text)
Matches(article) ==
    LET text == ScoredText(article)
    IN  Cardinality({i \in 1..Len(keywords) : Contains(keywords[i], text)})

\* a demo test that forgets lower()
IsDemoCaseSensitive(article) == Contains("demo", Get(article, "source", ""))

\* 'demo' in article.get('source', '').lower()
IsDemo(article) == Contains("demo", Lower(Get(article, "source", "")))

\* a scorer that forgets the cap at 1.0
FinalScoreUncapped(matches, article) ==
    LET score   == matches
        floored == IF IsDemo(article) THEN Max(score, DemoFloor) ELSE score
    IN  floored * ScoreBoost

\* a scorer without the floor for demo sources
FinalScoreNoFloor(matches, article) == Min(matches * ScoreBoost, ScoreOne)

\* a scorer that applies the floor for demo sources after the boost
FinalScoreFloorLast(matches, article) ==
    LET boosted == Min(matches * ScoreBoost, ScoreOne)
    IN  IF IsDemo(article) THEN Max(boosted, DemoFloor) ELSE boosted

\* score -> final_score, lines 360-367, given matches and the article
FinalScore(matches, article) ==
    LET score   == matches
        floored == IF IsDemo(article) THEN Max(score, DemoFloor) ELSE score
    IN  Min(floored * ScoreBoost, ScoreOne)

\* the value _keyword_based_relevance returns
KeywordBasedRelevance(article) == FinalScore(Matches(article), article)

\* _assess_it_relevance: the keyword scorer is always used
AssessItRelevance(article) == KeywordBasedRelevance(article)

(***************************************************************************)
(* Source adapters                                                         *)
(***************************************************************************)
\* Python None
NoneValue == "<None>"

\* truth value of an Optional[str]
Truthy(v) == v # NoneValue /\ v # ""

\* s.startswith(prefix)
StartsWith(s, prefix) == Len(s) >= Len(prefix) /\ SubSeq(s, 1, Len(prefix)) = prefix

NIST_BASE_URL == "https://csrc.nist.gov"

NIST_SEARCH_TERMS ==
    << "NIST SP 800-53", "NIST SP 800-171", "NIST SP 800-218",
       "cybersecurity framework", "secure software development",
       "supply chain security", "SSDF" >>

\* datetime.now().strftime('%Y-%m-%d'), the same day throughout an invocation
Today == "2026-01-15"

DemoTitle1 == "NIST SP 800-218A: Secure Software Development Framework (SSDF) v1.1"

DemoSummary1 == "This document provides guidance on implementing secure software development practices throughout the software development life cycle (SDLC), including CI/CD pipeline security, supply chain security, and SBOM requirements."

DemoContent1 == "This publication provides updated guidance for implementing secure software development practices, with enhanced focus on CI/CD pipeline security, supply chain security, SBOM requirements, container security, and DevOps integration."

DemoSource == "NIST CSRC (Demo)"

DemoTitle2 == "NIST Cybersecurity Framework 2.0: Updated Implementation Guidance"

DemoSummary2 == "Major update to the NIST Cybersecurity Framework with new guidance for cloud environments, IoT security, and supply chain risk management."

DemoContent2 == "The updated framework includes new core functions for cybersecurity governance, cloud security guidance, supply chain subcategories, and expanded coverage for operational technology and IoT."

DemoTitle3 == "NIST SP 800-53 Rev 5: Security Controls for Federal Information Systems"

DemoSummary3 == "Updated security controls with new guidance for DevOps, cloud computing, and mobile device security."

DemoContent3 == "Security controls for software development environments including continuous monitoring requirements, automated security testing integration, configuration management controls, and access control for development environments."

demo_articles ==
    << [title |-> DemoTitle1,
        url |-> "https://csrc.nist.gov/publications/detail/sp/800-218a/final",
        date |-> "2024-12-01", summary |-> DemoSummary1,
        source |-> DemoSource, content |-> DemoContent1],
       [title |-> DemoTitle2,
        url |-> "https://csrc.nist.gov/cyberframework/framework",
        date |-> "2024-11-15", summary |-> DemoSummary2,
        source |-> DemoSource, content |-> DemoContent2],
       [title |-> DemoTitle3,
        url |-> "https://csrc.nist.gov/publications/detail/sp/800-53/rev-5/final",
        date |-> "2024-10-30", summary |-> DemoSummary3,
        source |-> DemoSource, content |-> DemoContent3] >>

\* a fallback adapter whose slice is one short
GetDemoNistDataOneShort(limit) == SliceTo(demo_articles, Max(limit - 1, 0))

\* a fallback adapter that has no document
GetDemoNistDataNothing(limit) == <<>>

\* _get_demo_nist_data(limit), limit >= 0
GetDemoNistData(limit) == SliceTo(demo_articles, limit)

\* the markers a listing title must contain
TitleMarkers == {"sp 800", "special publication", "cybersecurity", "framework"}

\* the shortest accepted title is longer than this
MinTitleLen == 10

\* lines 152-154: a relative link is resolved against the base URL
CleanLink(link) ==
    IF link # "" /\ ~StartsWith(link, "http") THEN NIST_BASE_URL \o link ELSE link

\* line 157: the filter for relevant publications
AcceptedTitle(title) ==
    /\ title # ""
    /\ Len(title) > MinTitleLen
    /\ \E keyword \in TitleMarkers : Contains(keyword, Lower(title))

\* lines 134-166: the loop over the results of the listing page; each result is
\* the (title, href) pair read from one result element
RECURSIVE CsrcLoop(_, _, _, _)
CsrcLoop(term, limit, search_results, found) ==
    IF search_results = <<>> \/ Len(found) >= limit THEN found
    ELSE LET result == Head(search_results)
             article == [title |-> result.title,
                         url |-> CleanLink(result.href),
                         date |-> Today,
                         summary |-> "NIST publication related to " \o term,
                         source |-> "NIST CSRC"]
         IN  CsrcLoop(term, limit, Tail(search_results),
                      IF AcceptedTitle(result.title) THEN Append(found, article) ELSE found)

\* what a request can yield: it raises, or it answers with a sequence of results
Failure == [ok |-> FALSE, results |-> <<>>]

Answer(results) == [ok |-> TRUE, results |-> results]

\* _search_nist_csrc(term, limit): outcome is Failure when the GET, the status
\* check or the parse raises (caught at line 168), else the results of the page
SearchNistCsrc(term, limit, outcome) ==
    IF ~outcome.ok THEN <<>> ELSE CsrcLoop(term, limit, outcome.results, <<>>)

\* item.get(key, '') of a search item
GoogleArticle(item) ==
    [title |-> Get(item, "title", ""),
     url |-> Get(item, "link", ""),
     date |-> Get(item, "displayLink", ""),
     summary |-> Get(item, "snippet", ""),
     source |-> "Google Search"]

\* line 181
GoogleQuery(query) ==
    "NIST SP 800 " \o (IF Truthy(query) THEN query ELSE "cybersecurity framework")
        \o " site:nist.gov"

\* _google_search_nist(query, limit): no request without both credentials; outcome
\* is Failure when the request raises (caught at line 207), else data['items']
GoogleSearchNist(query, limit, outcome) ==
    IF ~google_api_key \/ ~search_engine_id THEN <<>>
    ELSE IF ~outcome.ok THEN <<>>
    ELSE [i \in 1..Len(SliceTo(outcome.results, limit)) |-> GoogleArticle(outcome.results[i])]

(***************************************************************************)
(* What the outside world can answer                                       *)
(***************************************************************************)
ResultSp80053 ==
    [title |-> "SP 800-53 Rev. 5, Security and Privacy Controls",
     href |-> "/pubs/sp/800/53/r5/upd1/final"]

ResultCsf ==
    [title |-> "The NIST Cybersecurity Framework (CSF) 2.0",
     href |-> "https://www.nist.gov/cyberframework"]

ResultNews == [title |-> "News and Events", href |-> "/news"]

ResultShort == [title |-> "SP 800", href |-> "/publications/sp800"]

ResultNoLink == [title |-> "Special Publication 800-171 Rev. 3", href |-> ""]

\* listing pages: the (title, href) pairs of their result elements, in page order
CsrcPages ==
    { <<ResultNews, ResultShort>>,
      <<ResultNews, ResultSp80053, ResultCsf>>,
      <<ResultNoLink, ResultShort, ResultCsf>> }

CsrcOutcomes == {Failure} \cup {Answer(page) : page \in CsrcPages}

ItemSsdf ==
    [title |-> "SP 800-218, Secure Software Development Framework",
     link |-> "https://csrc.nist.gov/pubs/sp/800/218/final",
     displayLink |-> "csrc.nist.gov",
     snippet |-> "Recommendations for mitigating the risk of software vulnerabilities"]

ItemNoTitle ==
    [link |-> "https://www.nist.gov/itl",
     displayLink |-> "www.nist.gov",
     snippet |-> "Information Technology Laboratory"]

\* an item whose page has no text
ItemBlank ==
    [title |-> "NIST Special Publication 800-series General Information",
     link |-> "https://www.nist.gov/itl/publications/nist-special-publication-800-series-general-information",
     displayLink |-> "www.nist.gov",
     snippet |-> "Publications in the SP 800 series"]

\* 'num': min(limit, 10): the most items one response carries
GoogleMaxItems == 10

GoogleResponses ==
    { <<>>,
      <<ItemSsdf>>,
      <<ItemNoTitle, ItemSsdf>>,
      [i \in 1..GoogleMaxItems |-> IF i % 2 = 1 THEN ItemSsdf ELSE ItemNoTitle] }

GoogleOutcomes == {Failure} \cup {Answer(items) : items \in GoogleResponses}

Topics == {NoneValue, "zero trust"}

\* the largest max_results requested
MaxResults == 6

(***************************************************************************)
(* Retrieval aggregator: search_nist_updates                               *)
(***************************************************************************)
\* a term list with the caller's topic in front of the default terms
SearchTermsTopicFirst(t) ==
    IF Truthy(t) THEN <<t>> \o NIST_SEARCH_TERMS ELSE NIST_SEARCH_TERMS

\* lines 218-220
SearchTerms(t) ==
    IF Truthy(t) THEN Append(NIST_SEARCH_TERMS, t) ELSE NIST_SEARCH_TERMS

\* the terms of search_terms[:3]
PrimaryTermCount == 3

\* a loop over every search term
PrimaryTermsAll(t) == SearchTerms(t)

PrimaryTerms(t) == SliceTo(SearchTerms(t), PrimaryTermCount)

\* a per-term limit that rounds up
PrimaryLimitCeil(n) == (n + 2) \div 3

\* max_results // 3
PrimaryLimit(n) == n \div 3

CallRecord(adapter, query, limit, failed, returned) ==
    [adapter |-> adapter, query |-> query, limit |-> limit,
     failed |-> failed, returned |-> returned]

\* a loop that gives up on the primary tier after a failed query
AfterPrimaryStopOnFailure(found, outcome) ==
    IF Len(found) >= max_results \/ ~outcome.ok
          \/ term_i = Len(PrimaryTerms(topic))
    THEN pc' = "google" /\ term_i' = term_i
    ELSE pc' = pc /\ term_i' = term_i + 1

\* lines 225, 229-230: the break, or the next term, or the end of the loop
AfterPrimary(found, outcome) ==
    IF Len(found) >= max_results \/ term_i = Len(PrimaryTerms(topic))
    THEN pc' = "google" /\ term_i' = term_i
    ELSE pc' = pc /\ term_i' = term_i + 1

\* lines 225-232: one iteration of the loop over search_terms[:3]
PrimaryQuery ==
    /\ pc = "primary"
    /\ \E outcome \in CsrcOutcomes :
          LET term == PrimaryTerms(topic)[term_i]
              limit == PrimaryLimit(max_results)
              nist_articles == SearchNistCsrc(term, limit, outcome)
              found == articles \o nist_articles
          IN  /\ articles' = found
              /\ calls' = Append(calls, CallRecord("csrc", term, limit,
                                                   ~outcome.ok, Len(nist_articles)))
              /\ AfterPrimary(found, outcome)
    /\ UNCHANGED <<scorer_vars, request_vars, llm_vars, conc_vars, workflow_vars>>

\* an aggregator that calls the secondary adapter whenever it is short, with or
\* without credentials
GoogleStepUngated ==
    /\ pc = "google"
    /\ IF Len(articles) < max_results
       THEN \E outcome \in GoogleOutcomes :
              LET limit == max_results - Len(articles)
                  google_articles == GoogleSearchNist(topic, limit, outcome)
              IN  /\ articles' = articles \o google_articles
                  /\ calls' = Append(calls, CallRecord("google", GoogleQuery(topic), limit,
                                                       ~outcome.ok, Len(google_articles)))
       ELSE UNCHANGED <<articles, calls>>
    /\ pc' = "demo"
    /\ UNCHANGED <<scorer_vars, request_vars, llm_vars, conc_vars, term_i, workflow_vars>>

\* lines 234-240: the secondary tier
GoogleStep ==
    /\ pc = "google"
    /\ IF Len(articles) < max_results /\ google_api_key /\ search_engine_id
       THEN \E outcome \in GoogleOutcomes :
              LET limit == max_results - Len(articles)
                  google_articles == GoogleSearchNist(topic, limit, outcome)
              IN  /\ articles' = articles \o google_articles
                  /\ calls' = Append(calls, CallRecord("google", GoogleQuery(topic), limit,
                                                       ~outcome.ok, Len(google_articles)))
       ELSE UNCHANGED <<articles, calls>>
    /\ pc' = "demo"
    /\ UNCHANGED <<scorer_vars, request_vars, llm_vars, conc_vars, term_i, workflow_vars>>

\* the fallback as it was before the fix of line 242: only when nothing was found
WithDemoOnlyWhenEmpty(found) ==
    IF Len(found) = 0
    THEN found \o GetDemoNistData(max_results - Len(found))
    ELSE found

\* a fallback that puts its documents in front of what was found
WithDemoFirst(found) ==
    IF Len(found) < max_results
    THEN GetDemoNistData(max_results - Len(found)) \o found
    ELSE found

\* lines 242-246: the fallback fills the shortfall
WithDemo(found) ==
    IF Len(found) < max_results
    THEN found \o GetDemoNistData(max_results - Len(found))
    ELSE found

\* lines 248-251: demo data entirely when there is still nothing
WithDemoAgain(found) ==
    IF Len(found) = 0 THEN GetDemoNistData(max_results) ELSE found

\* the calls of the fallback adapter the two steps above make
DemoCalls(found) ==
    (IF Len(found) < max_results
     THEN << CallRecord("demo", "", max_results - Len(found), FALSE,
                        Len(GetDemoNistData(max_results - Len(found)))) >>
     ELSE <<>>)
    \o (IF Len(WithDemo(found)) = 0
        THEN << CallRecord("demo", "", max_results, FALSE,
                           Len(GetDemoNistData(max_results))) >>
        ELSE <<>>)

\* a fallback tier that appends the whole corpus and returns without the slice
DemoAndReturnUntruncated ==
    /\ pc = "demo"
    /\ articles' = articles \o demo_articles
    /\ calls' = calls \o DemoCalls(articles)
    /\ pc' = "searched"
    /\ UNCHANGED <<scorer_vars, request_vars, llm_vars, conc_vars, term_i, workflow_vars>>

\* lines 242-253: the fallback tier and the return of articles[:max_results]
DemoAndReturn ==
    /\ pc = "demo"
    /\ articles' = SliceTo(WithDemoAgain(WithDemo(articles)), max_results)
    /\ calls' = calls \o DemoCalls(articles)
    /\ pc' = "searched"
    /\ UNCHANGED <<scorer_vars, request_vars, llm_vars, conc_vars, term_i, workflow_vars>>

NoResponse == [type |-> "none"]

\* nothing extracted, filtered or answered yet
WorkflowFresh ==
    /\ art_i = 1
    /\ articles_with_content = <<>>
    /\ fetched = <<>>
    /\ relevant_articles = <<>>
    /\ summary = <<>>
    /\ response = NoResponse

\* no LLM call made and no concurrent invocation started
AgentIdle ==
    /\ openai_client = FALSE
    /\ llm_calls = 0
    /\ heap = <<>>
    /\ inv = <<>>

ScorerIdle ==
    /\ doc = <<>>
    /\ final_score = -1
    /\ matches_before = -1
    /\ matches_after = -1
    /\ added_at = -1
    /\ spc = "idle"

\* search_nist_updates(topic, max_results) has been called
InitSearch ==
    /\ topic \in Topics
    /\ max_results \in 1..MaxResults
    /\ google_api_key \in BOOLEAN
    /\ search_engine_id \in BOOLEAN
    /\ pc = "primary"
    /\ term_i = 1
    /\ articles = <<>>
    /\ calls = <<>>
    /\ WorkflowFresh
    /\ github_client = FALSE
    /\ ScorerIdle
    /\ AgentIdle

NextSearch == PrimaryQuery \/ GoogleStep \/ DemoAndReturn

SpecSearch == InitSearch /\ [][NextSearch]_vars

(***************************************************************************)
(* Content extractor: extract_content                                      *)
(***************************************************************************)
\* content[:50000]
ExtractLimit == 50000

F10 == "xxxxxxxxxx"

F100 == F10 \o F10 \o F10 \o F10 \o F10 \o F10 \o F10 \o F10 \o F10 \o F10

\* 1000 characters that are part of no keyword
F1000 == F100 \o F100 \o F100 \o F100 \o F100 \o F100 \o F100 \o F100 \o F100 \o F100

F10000 == F1000 \o F1000 \o F1000 \o F1000 \o F1000 \o F1000 \o F1000 \o F1000 \o F1000 \o F1000

\* the cleaned text of a long page: 50,004 characters, the last keyword of the
\* text lying across the limit
PageLong ==
    F10000 \o F10000 \o F10000 \o F10000 \o SubSeq(F10000, 1, 9998) \o "sbom" \o "ab"

\* a page of exactly ExtractLimit characters
PageAtLimit == SubSeq(PageLong, 5, 50004)

ResultLong == [title |-> "SP 800-37 Rev. 2, Risk Management Framework", href |-> "/pubs/sp/800/37/r2/final"]

ResultAtLimit == [title |-> "SP 800-30 Rev. 1, Guide for Conducting Risk Assessments", href |-> "/pubs/sp/800/30/r1/final"]

PageControls == "Security and privacy controls for information systems: access control, authentication, configuration management and supply chain risk management."

PageOverview == "Compliance overview and quick start guides"

\* the cleaned text (line 313) of the page at url; a page without a body and a
\* page whose text is blank both give ""
PageText(url) ==
    IF url = NIST_BASE_URL \o ResultSp80053.href THEN PageControls
    ELSE IF url = ResultCsf.href THEN PageOverview
    ELSE IF url = ItemNoTitle.link THEN DemoContent1
    ELSE IF url = ItemSsdf.link THEN PageOverview
    ELSE IF url = NIST_BASE_URL \o ResultLong.href THEN PageLong
    ELSE IF url = NIST_BASE_URL \o ResultAtLimit.href THEN PageAtLimit
    ELSE ""

\* a GET of an article page raises, or answers with the page
FetchOutcomes(url) == {Failure, Answer(PageText(url))}

\* an extractor that fetches every article again
HasContentNever(article) == FALSE

\* line 264: 'content' in article and article['content']
HasContent(article) == "content" \in DOMAIN article /\ article.content # ""

\* an extractor that keeps the whole text
ExtractedTextWhole(outcome) == IF ~outcome.ok THEN "" ELSE outcome.results

\* lines 282-320 of _extract_single_article, after the GET of a non-empty url
ExtractedText(outcome) ==
    IF ~outcome.ok THEN "" ELSE SliceTo(outcome.results, ExtractLimit)

\* d with d[key] = value
WithKey(d, key, value) ==
    [k \in DOMAIN d \cup {key} |-> IF k = key THEN value ELSE d[k]]

\* an extractor that emits the article whatever _extract_single_article returned
KeepExtractedAlways(content) ==
    /\ articles' = [articles EXCEPT ![art_i] = WithKey(@, "content", content)]
    /\ articles_with_content' = Append(articles_with_content, art_i)

\* lines 267-270: the article was not passed through; content is what
\* _extract_single_article returned
KeepExtracted(content) ==
    IF content # ""
    THEN /\ articles' = [articles EXCEPT ![art_i] = WithKey(@, "content", content)]
         /\ articles_with_content' = Append(articles_with_content, art_i)
    ELSE UNCHANGED <<articles, articles_with_content>>

\* lines 261-272: one iteration of the loop over articles
ExtractArticle ==
    /\ pc = "extract"
    /\ art_i <= Len(articles)
    /\ LET article == articles[art_i]
           url == Get(article, "url", "")
       IN  IF HasContent(article)
           THEN /\ articles_with_content' = Append(articles_with_content, art_i)
                /\ UNCHANGED <<articles, fetched>>
           ELSE IF url = ""
           THEN KeepExtracted("") /\ UNCHANGED fetched
           ELSE \E outcome \in FetchOutcomes(url) :
                  /\ fetched' = Append(fetched, url)
                  /\ KeepExtracted(ExtractedText(outcome))
    /\ art_i' = art_i + 1
    /\ UNCHANGED <<scorer_vars, request_vars, llm_vars, conc_vars, pc, term_i, calls,
                   relevant_articles, summary, github_client, response>>

\* line 274: return extracted_articles
ExtractReturn ==
    /\ pc = "extract"
    /\ art_i > Len(articles)
    /\ pc' = "extracted"
    /\ UNCHANGED <<scorer_vars, request_vars, llm_vars, conc_vars, term_i, articles, calls, workflow_vars>>

(***************************************************************************)
(* Relevance filter: filter_it_relevant_content                            *)
(***************************************************************************)
\* 0.7 as a numerator over len(keywords)
RelevanceThreshold == 21

\* a filter that also keeps the articles scoring exactly the threshold
RECURSIVE FilterLoopInclusive(_, _, _)
FilterLoopInclusive(arts, ids, kept) ==
    IF ids = <<>> THEN [articles |-> arts, filtered |-> kept]
    ELSE LET i == Head(ids)
             relevance_score == AssessItRelevance(arts[i])
         IN  IF relevance_score >= RelevanceThreshold
             THEN FilterLoopInclusive(
                      [arts EXCEPT ![i] = WithKey(@, "relevance_score", relevance_score)],
                      Tail(ids), Append(kept, i))
             ELSE FilterLoopInclusive(arts, Tail(ids), kept)

\* a filter that writes the score on every article it assesses
RECURSIVE FilterLoopScoresAll(_, _, _)
FilterLoopScoresAll(arts, ids, kept) ==
    IF ids = <<>> THEN [articles |-> arts, filtered |-> kept]
    ELSE LET i == Head(ids)
             relevance_score == AssessItRelevance(arts[i])
             scored == [arts EXCEPT ![i] = WithKey(@, "relevance_score", relevance_score)]
         IN  IF relevance_score > RelevanceThreshold
             THEN FilterLoopScoresAll(scored, Tail(ids), Append(kept, i))
             ELSE FilterLoopScoresAll(scored, Tail(ids), kept)

\* lines 326-338: the loop over the articles ids refers to; the kept articles
\* get their relevance_score
RECURSIVE FilterLoop(_, _, _)
FilterLoop(arts, ids, kept) ==
    IF ids = <<>> THEN [articles |-> arts, filtered |-> kept]
    ELSE LET i == Head(ids)
             relevance_score == AssessItRelevance(arts[i])
         IN  IF relevance_score > RelevanceThreshold
             THEN FilterLoop(
                      [arts EXCEPT ![i] = WithKey(@, "relevance_score", relevance_score)],
                      Tail(ids), Append(kept, i))
             ELSE FilterLoop(arts, Tail(ids), kept)

\* filter_it_relevant_content(articles_with_content)
Filter ==
    /\ pc = "extracted"
    /\ LET result == FilterLoop(articles, articles_with_content, <<>>)
       IN  /\ articles' = result.articles
           /\ relevant_articles' = result.filtered
    /\ pc' = "filtered"
    /\ UNCHANGED <<scorer_vars, request_vars, llm_vars, conc_vars, term_i, calls, art_i,
                   articles_with_content, fetched, summary, github_client, response>>

(***************************************************************************)
(* Report renderer: generate_summary, _generate_fallback_summary           *)
(* The report is carried as the sequence of its lines (the text split at    *)
(* its newlines); the fields of the articles hold no newline.              *)
(***************************************************************************)
\* datetime.now().isoformat() and strftime('%Y-%m-%d %H:%M:%S') of the call
NowIso == "2026-01-15T10:30:00.000000"

NowStamp == "2026-01-15 10:30:00"

\* format(score, '.2f') of a score carried as a numerator over len(keywords);
\* the scorer returns tenths only
FormatScore(n) ==
    LET hundredths == (n * 100) \div ScoreOne
    IN  ToString(hundredths \div 100) \o "." \o ToString((hundredths \div 10) % 10)
            \o ToString(hundredths % 10)

\* the message of the ValueError format('N/A', '.2f') raises
FormatError == "Unknown format code 'f' for object of type 'str'"

\* lines 382-396
ReportHeader(n) ==
    << "---",
       "title: \"NIST SP 800 Compliance Update Summary\"",
       "date: \"" \o NowIso \o "\"",
       "articles_processed: " \o ToString(n),
       "generated_by: \"NIST Compliance Workflow Agent\"",
       "---",
       "",
       "# NIST SP 800 Compliance Update Summary",
       "",
       "**Generated:** " \o NowStamp,
       "**Articles Processed:** " \o ToString(n),
       "",
       "## Latest Updates",
       "" >>

\* lines 399-408: the block of the i-th article
FindingBlock(i, article) ==
    << "",
       "### " \o ToString(i) \o ". " \o Get(article, "title", "Untitled"),
       "",
       "- **URL:** " \o Get(article, "url", "N/A"),
       "- **Date:** " \o Get(article, "date", "N/A"),
       "- **Source:** " \o Get(article, "source", "N/A"),
       "- **Relevance Score:** " \o FormatScore(article.relevance_score),
       "- **Summary:** " \o Get(article, "summary", "N/A"),
       "" >>

\* lines 398-408: for i, article in enumerate(articles, 1), from the i-th on
RECURSIVE FindingBlocksFrom(_, _)
FindingBlocksFrom(i, arts) ==
    IF i > Len(arts) THEN <<>>
    ELSE FindingBlock(i, arts[i]) \o FindingBlocksFrom(i + 1, arts)

\* arts with its highest score first
RECURSIVE ByScore(_)
ByScore(arts) ==
    IF arts = <<>> THEN <<>>
    ELSE LET best == CHOOSE i \in 1..Len(arts) :
                        \A j \in 1..Len(arts) :
                            \/ arts[j].relevance_score < arts[i].relevance_score
                            \/ arts[j].relevance_score = arts[i].relevance_score /\ i <= j
         IN  <<arts[best]>> \o ByScore(SubSeq(arts, 1, best - 1) \o SubSeq(arts, best + 1, Len(arts)))

\* a renderer that lists the findings by descending score
FindingBlocksByScore(arts) == FindingBlocksFrom(1, ByScore(arts))

FindingBlocks(arts) == FindingBlocksFrom(1, arts)

\* lines 410-432
ReportAdvice ==
    << "",
       "## Key Recommendations for IT Teams",
       "",
       "Based on the analyzed NIST updates, consider the following actions:",
       "",
       "- [ ] **Review Security Controls**: Assess current implementation of NIST SP 800-53 controls",
       "- [ ] **Update SDLC Processes**: Integrate new secure development practices from SP 800-218",
       "- [ ] **Enhance CI/CD Security**: Implement automated security testing in development pipelines",
       "- [ ] **Supply Chain Assessment**: Review third-party components and implement SBOM practices",
       "- [ ] **Access Control Review**: Update authentication and authorization mechanisms",
       "- [ ] **Incident Response**: Revise incident response procedures based on new guidance",
       "",
       "## Next Steps",
       "",
       "1. Review each publication in detail",
       "2. Conduct gap analysis against current practices",
       "3. Develop implementation roadmap",
       "4. Train development teams on new requirements",
       "5. Update security policies and procedures",
       "",
       "## Source Citations",
       "" >>

\* line 435
CitationLine(i, article) ==
    ToString(i) \o ". [" \o Get(article, "title", "Untitled") \o "]("
        \o Get(article, "url", "#") \o ")"

\* a citation list that leaves out the articles without a url
RECURSIVE CitationLinesWithUrl(_)
CitationLinesWithUrl(arts) ==
    IF arts = <<>> THEN <<>>
    ELSE CitationLinesWithUrl(SubSeq(arts, 1, Len(arts) - 1))
            \o (IF "url" \in DOMAIN arts[Len(arts)]
                THEN <<CitationLine(Len(arts), arts[Len(arts)])>> ELSE <<>>)

\* lines 434-435
CitationLines(arts) == [i \in 1..Len(arts) |-> CitationLine(i, arts[i])]

\* lines 437-441
ReportFooter ==
    << "",
       "",
       "---",
       "*This summary was generated automatically by the NIST Compliance Workflow Agent on "
           \o NowStamp \o "*" >>

\* _generate_fallback_summary(articles): the lines of the report, or the
\* ValueError of line 405 when an article has no relevance_score
GenerateFallbackSummary(arts) ==
    IF \E i \in 1..Len(arts) : "relevance_score" \notin DOMAIN arts[i]
    THEN Failure
    ELSE Answer(ReportHeader(Len(arts)) \o FindingBlocks(arts) \o ReportAdvice
                    \o CitationLines(arts) \o ReportFooter)

(***************************************************************************)
(* run_workflow                                                            *)
(***************************************************************************)
HTTPException(status_code, detail) ==
    [type |-> "HTTPException", status_code |-> status_code, detail |-> detail]

WorkflowResponse(status, summary_url, pr_url, articles_processed) ==
    [type |-> "WorkflowResponse", status |-> status, summary_url |-> summary_url,
     pr_url |-> pr_url, articles_processed |-> articles_processed]

\* the ValueError of format(str, '.2f'), line 405
ValueError(message) == [type |-> "ValueError", status_code |-> 0, detail |-> message]

\* str(e): of an HTTPException, status code and detail; of a ValueError, its message
StrOfException(e) ==
    IF e.type = "HTTPException" THEN ToString(e.status_code) \o ": " \o e.detail
    ELSE e.detail

\* lines 576-578: whatever is raised inside the try block, the HTTPExceptions of
\* lines 536 and 544 included, is caught and raised again as a 500
RaisedInTry(e) == HTTPException(500, StrOfException(e))

\* lines 534-536: search_nist_updates has returned
AfterSearch ==
    /\ pc = "searched"
    /\ IF articles = <<>>
       THEN /\ response' = RaisedInTry(HTTPException(404, "No NIST updates found"))
            /\ pc' = "done"
       ELSE /\ pc' = "extract"
            /\ UNCHANGED response
    /\ UNCHANGED <<scorer_vars, request_vars, llm_vars, conc_vars, term_i, articles, calls, art_i,
                   articles_with_content, fetched, relevant_articles, summary, github_client>>

\* lines 542-544: filter_it_relevant_content has returned
AfterFilter ==
    /\ pc = "filtered"
    /\ IF relevant_articles = <<>>
       THEN /\ response' = RaisedInTry(HTTPException(404,
                                "No relevant articles found for IT organizations"))
            /\ pc' = "done"
       ELSE /\ pc' = "summary"
            /\ UNCHANGED response
    /\ UNCHANGED <<scorer_vars, request_vars, llm_vars, conc_vars, term_i, articles, calls, art_i,
                   articles_with_content, fetched, relevant_articles, summary, github_client>>

\* line 547: generate_summary(relevant_articles); what it raises is raised inside
\* the try block
GenerateSummary ==
    /\ pc = "summary"
    /\ LET rendered == GenerateFallbackSummary(
                           [i \in 1..Len(relevant_articles) |-> articles[relevant_articles[i]]])
       IN  IF rendered.ok
           THEN /\ summary' = rendered.results
                /\ pc' = "publish"
                /\ UNCHANGED response
           ELSE /\ response' = RaisedInTry(ValueError(FormatError))
                /\ pc' = "done"
                /\ UNCHANGED summary
    /\ UNCHANGED <<scorer_vars, request_vars, llm_vars, conc_vars, term_i, articles, calls, art_i,
                   articles_with_content, fetched, relevant_articles, github_client>>

\* the urls publish_to_github returns, lines 508-513
PublishedSummaryUrl == "https://github.com/your-org/nist-compliance-reports/blob/nist-update/reports/nist-compliance.md"

PublishedPrUrl == "https://github.com/your-org/nist-compliance-reports/pull/1"

\* a run_workflow that lets a failure of publish_to_github escape to the outer
\* handler
PublishFailureFatal ==
    /\ pc = "publish"
    /\ IF github_client
       THEN \E published \in BOOLEAN :
              response' =
                IF published
                THEN WorkflowResponse("success", PublishedSummaryUrl, PublishedPrUrl,
                                      Len(relevant_articles))
                ELSE RaisedInTry(HTTPException(500, "Failed to publish to GitHub: "))
       ELSE response' =
                WorkflowResponse("success",
                    "GitHub not configured - summary generated successfully",
                    "GitHub not configured - no PR created",
                    Len(relevant_articles))
    /\ pc' = "done"
    /\ UNCHANGED <<scorer_vars, request_vars, llm_vars, conc_vars, term_i, articles, calls, art_i,
                   articles_with_content, fetched, relevant_articles, summary, github_client>>

\* lines 549-574: publish when configured, and the response
Publish ==
    /\ pc = "publish"
    /\ IF github_client
       THEN \E published \in BOOLEAN :
              response' =
                IF published
                THEN WorkflowResponse("success", PublishedSummaryUrl, PublishedPrUrl,
                                      Len(relevant_articles))
                ELSE WorkflowResponse("success",
                        "GitHub publishing failed - summary generated successfully",
                        "GitHub publishing failed - summary generated successfully",
                        Len(relevant_articles))
       ELSE response' =
                WorkflowResponse("success",
                    "GitHub not configured - summary generated successfully",
                    "GitHub not configured - no PR created",
                    Len(relevant_articles))
    /\ pc' = "done"
    /\ UNCHANGED <<scorer_vars, request_vars, llm_vars, conc_vars, term_i, articles, calls, art_i,
                   articles_with_content, fetched, relevant_articles, summary, github_client>>

\* the largest max_articles of a request
MaxArticles == 3

\* run_workflow(request) has been called; max_articles is any int of the request,
\* 0 included
Init ==
    /\ topic \in Topics
    /\ max_results \in 0..MaxArticles
    /\ google_api_key \in BOOLEAN
    /\ search_engine_id \in BOOLEAN
    /\ github_client \in BOOLEAN
    /\ pc = "primary"
    /\ term_i = 1
    /\ articles = <<>>
    /\ calls = <<>>
    /\ WorkflowFresh
    /\ ScorerIdle
    /\ AgentIdle

Next ==
    \/ PrimaryQuery
    \/ GoogleStep
    \/ DemoAndReturn
    \/ AfterSearch
    \/ ExtractArticle
    \/ ExtractReturn
    \/ Filter
    \/ AfterFilter
    \/ GenerateSummary
    \/ Publish

Spec == Init /\ [][Next]_vars

(***************************************************************************)
(* extract_content on its own, on every short sequence of ExtractInputs    *)
(***************************************************************************)
PrimaryArticle(term, result) == CsrcLoop(term, 1, <<result>>, <<>>)[1]

ArticleSp80053 == PrimaryArticle(NIST_SEARCH_TERMS[1], ResultSp80053)

ArticleCsf == PrimaryArticle(NIST_SEARCH_TERMS[2], ResultCsf)

ArticleNoLink == PrimaryArticle(NIST_SEARCH_TERMS[2], ResultNoLink)

ArticleLong == PrimaryArticle(NIST_SEARCH_TERMS[3], ResultLong)

ArticleAtLimit == PrimaryArticle(NIST_SEARCH_TERMS[3], ResultAtLimit)

\* a pre-filled article, an article to fetch, one whose content is set to the
\* empty string, one without a url, one whose page has no text, one whose page
\* is longer than the limit, one whose page is exactly as long as the limit and
\* a pre-filled article whose content is longer than the limit
ExtractInputs ==
    { demo_articles[1],
      WithKey(demo_articles[2], "content", PageLong),
      ArticleSp80053,
      WithKey(ArticleCsf, "content", ""),
      ArticleNoLink,
      GoogleArticle(ItemBlank),
      ArticleLong,
      ArticleAtLimit }

\* the longest input sequence
MaxExtractLen == 3

SeqsUpTo(S, n) == UNION {[1..m -> S] : m \in 0..n}

InitExtract ==
    /\ topic = NoneValue
    /\ max_results = 0
    /\ google_api_key = FALSE
    /\ search_engine_id = FALSE
    /\ github_client = FALSE
    /\ pc = "extract"
    /\ term_i = 0
    /\ articles \in SeqsUpTo(ExtractInputs, MaxExtractLen)
    /\ calls = <<>>
    /\ WorkflowFresh
    /\ ScorerIdle
    /\ AgentIdle

NextExtract == ExtractArticle \/ ExtractReturn

SpecExtract == InitExtract /\ [][NextExtract]_vars

(***************************************************************************)
(* filter_it_relevant_content on its own, on every short sequence of       *)
(* FilterInputs                                                            *)
(***************************************************************************)
\* 9 keywords: scores 0.9
ArticleNine ==
    [title |-> "Secure software development", summary |-> "SDLC, DevOps and CI/CD pipeline",
     content |-> "container cloud", source |-> "NIST CSRC"]

\* 7 keywords: scores exactly 0.7
ArticleSeven ==
    [title |-> "Cloud access control", summary |-> "authentication",
     content |-> "compliance guidance dast", source |-> "NIST CSRC"]

\* 8 keywords: scores 0.8
ArticleEight ==
    [title |-> "Cloud access control", summary |-> "authentication",
     content |-> "compliance guidance dast sast", source |-> "Google Search"]

\* 2 keywords: scores 0.2
ArticleTwo ==
    [title |-> "Cloud notes", summary |-> "", content |-> "access", source |-> "NIST CSRC"]

\* no keyword, demo source: scores 1.0
ArticleDemoOnly ==
    [title |-> "Untitled", summary |-> "", content |-> "x", source |-> DemoSource]

FilterInputs == {ArticleNine, ArticleSeven, ArticleEight, ArticleTwo, ArticleDemoOnly}

\* the longest input sequence
MaxFilterLen == 4

InitFilter ==
    /\ topic = NoneValue
    /\ max_results = 0
    /\ google_api_key = FALSE
    /\ search_engine_id = FALSE
    /\ github_client = FALSE
    /\ pc = "extracted"
    /\ term_i = 0
    /\ articles \in SeqsUpTo(FilterInputs, MaxFilterLen)
    /\ calls = <<>>
    /\ art_i = Len(articles) + 1
    /\ articles_with_content = [i \in 1..Len(articles) |-> i]
    /\ fetched = <<>>
    /\ relevant_articles = <<>>
    /\ summary = <<>>
    /\ response = NoResponse
    /\ ScorerIdle
    /\ AgentIdle

NextFilter == Filter

SpecFilter == InitFilter /\ [][NextFilter]_vars

(***************************************************************************)
(* generate_summary on its own, on every short sequence of RenderInputs     *)
(***************************************************************************)
\* scored articles: a fallback article, one without url and date, a search item
\* with the lowest score, one without a title; and an article without a score
RenderInputs ==
    { WithKey(demo_articles[1], "relevance_score", 30),
      WithKey(ArticleNine, "relevance_score", 27),
      WithKey(GoogleArticle(ItemSsdf), "relevance_score", 24),
      [url |-> "https://www.nist.gov/itl", date |-> "2025-03-01", summary |-> "",
       source |-> "Google Search", relevance_score |-> 30],
      demo_articles[2] }

\* the longest input sequence
MaxRenderLen == 3

InitRender ==
    /\ topic = NoneValue
    /\ max_results = 0
    /\ google_api_key = FALSE
    /\ search_engine_id = FALSE
    /\ github_client = FALSE
    /\ pc = "summary"
    /\ term_i = 0
    /\ articles \in SeqsUpTo(RenderInputs, MaxRenderLen)
    /\ calls = <<>>
    /\ art_i = Len(articles) + 1
    /\ articles_with_content = [i \in 1..Len(articles) |-> i]
    /\ fetched = <<>>
    /\ relevant_articles = [i \in 1..Len(articles) |-> i]
    /\ summary = <<>>
    /\ response = NoResponse
    /\ ScorerIdle
    /\ AgentIdle

NextRender == GenerateSummary

SpecRender == InitRender /\ [][NextRender]_vars

(***************************************************************************)
(* Concurrent invocations of run_workflow on one agent. Every invocation    *)
(* carries the request of request_vars; the invocations interleave at the   *)
(* awaits of run_workflow (lines 534, 539, 542, 547). The article dicts     *)
(* live in heap and the lists of an invocation hold their identities.       *)
(***************************************************************************)
\* the number of invocations in flight
NumInvocations == 2

Invocations == 1..NumInvocations

\* the request every invocation carries
ConcRequest == [topic |-> NoneValue, max_articles |-> 3]

\* what the three primary queries of one search_nist_updates call can yield
ConcListing == <<ResultNews, ResultSp80053, ResultCsf>>

ConcSearchOutcomes ==
    { <<Failure, Failure, Failure>>,
      <<Answer(ConcListing), Failure, Failure>>,
      <<Answer(ConcListing), Answer(ConcListing), Answer(ConcListing)>> }

\* lines 225-232 with the outcome of the k-th query given: what the primary tier
\* has found from the k-th term on
RECURSIVE PrimaryFrom(_, _, _, _)
PrimaryFrom(k, request, outcomes, found) ==
    IF k > Len(PrimaryTerms(request.topic)) \/ (k > 1 /\ Len(found) >= request.max_articles)
    THEN found
    ELSE PrimaryFrom(k + 1, request, outcomes,
                     found \o SearchNistCsrc(PrimaryTerms(request.topic)[k],
                                             PrimaryLimit(request.max_articles), outcomes[k]))

\* lines 222-253 for a request, without a secondary adapter: the dicts
\* search_nist_updates returns
SearchResult(request, outcomes) ==
    LET found  == PrimaryFrom(1, request, outcomes, <<>>)
        filled == IF Len(found) < request.max_articles
                  THEN found \o GetDemoNistData(request.max_articles - Len(found))
                  ELSE found
        again  == IF Len(filled) = 0 THEN GetDemoNistData(request.max_articles) ELSE filled
    IN  SliceTo(again, request.max_articles)

\* the identities of the dicts the i-th invocation creates
OwnIds(i, n) == [k \in 1..n |-> <<i, k>>]

\* a fallback corpus built once: a demo dict that exists already is handed out
\* again instead of a new one
AllocateCorpusOnce(h, i, docs) ==
    LET Same(d) == {id \in DOMAIN h : h[id].source = DemoSource /\ d.source = DemoSource
                                        /\ h[id].url = d.url}
        ids == [k \in 1..Len(docs) |->
                   IF Same(docs[k]) # {} THEN CHOOSE id \in Same(docs[k]) : TRUE
                   ELSE <<i, k>>]
    IN  [heap |-> [id \in DOMAIN h \cup {ids[k] : k \in 1..Len(docs)} |->
                      IF id \in DOMAIN h THEN h[id]
                      ELSE docs[CHOOSE k \in 1..Len(docs) : ids[k] = id]],
         ids |-> ids]

\* the dict displays of lines 84-109 and 158-164 are evaluated at every call:
\* each article the i-th invocation gets is a new object
Allocate(h, i, docs) ==
    [heap |-> [id \in DOMAIN h \cup {<<i, k>> : k \in 1..Len(docs)} |->
                  IF id \in DOMAIN h THEN h[id] ELSE docs[id[2]]],
     ids |-> OwnIds(i, Len(docs))]

NeedsFetch(article) == ~HasContent(article) /\ Get(article, "url", "") # ""

\* lines 261-272 over the dicts ids refers to, every GET of the call answering
\* (fetch_ok) or failing
RECURSIVE ExtractLoop(_, _, _, _)
ExtractLoop(h, ids, fetch_ok, kept) ==
    IF ids = <<>> THEN [heap |-> h, extracted |-> kept]
    ELSE LET id == Head(ids)
             article == h[id]
             url == Get(article, "url", "")
             content == IF url = "" THEN ""
                        ELSE ExtractedText(IF fetch_ok THEN Answer(PageText(url)) ELSE Failure)
         IN  IF HasContent(article)
             THEN ExtractLoop(h, Tail(ids), fetch_ok, Append(kept, id))
             ELSE IF content # ""
             THEN ExtractLoop([h EXCEPT ![id] = WithKey(@, "content", content)],
                              Tail(ids), fetch_ok, Append(kept, id))
             ELSE ExtractLoop(h, Tail(ids), fetch_ok, kept)

\* lines 543-574 without a GitHub client: the response for the dicts ids refers to
ResponseFor(h, ids) ==
    IF ids = <<>>
    THEN RaisedInTry(HTTPException(404, "No relevant articles found for IT organizations"))
    ELSE IF ~GenerateFallbackSummary([k \in 1..Len(ids) |-> h[ids[k]]]).ok
    THEN RaisedInTry(ValueError(FormatError))
    ELSE WorkflowResponse("success",
                          "GitHub not configured - summary generated successfully",
                          "GitHub not configured - no PR created", Len(ids))

NewInvocation ==
    [pc |-> "start", outcomes |-> <<>>, fetch_ok |-> TRUE, articles |-> <<>>,
     articles_with_content |-> <<>>, relevant_articles |-> <<>>, response |-> NoResponse]

\* lines 534-536: search_nist_updates runs and returns
CSearch(i) ==
    /\ inv[i].pc = "start"
    /\ \E outcomes \in ConcSearchOutcomes :
          LET new == Allocate(heap, i, SearchResult(ConcRequest, outcomes))
          IN  /\ heap' = new.heap
              /\ inv' = [inv EXCEPT ![i].outcomes = outcomes,
                                    ![i].articles = new.ids,
                                    ![i].pc = IF new.ids = <<>> THEN "done" ELSE "extract",
                                    ![i].response =
                                        IF new.ids = <<>>
                                        THEN RaisedInTry(HTTPException(404, "No NIST updates found"))
                                        ELSE NoResponse]
    /\ UNCHANGED <<scorer_vars, request_vars, search_vars, workflow_vars, llm_vars>>

\* line 539: extract_content runs and returns; its GETs, when it makes any,
\* all answer or all fail
CExtract(i) ==
    /\ inv[i].pc = "extract"
    /\ \E fetch_ok \in IF \E k \in 1..Len(inv[i].articles) : NeedsFetch(heap[inv[i].articles[k]])
                       THEN BOOLEAN ELSE {TRUE} :
          LET result == ExtractLoop(heap, inv[i].articles, fetch_ok, <<>>)
          IN  /\ heap' = result.heap
              /\ inv' = [inv EXCEPT ![i].fetch_ok = fetch_ok,
                                    ![i].articles_with_content = result.extracted,
                                    ![i].pc = "extracted"]
    /\ UNCHANGED <<scorer_vars, request_vars, search_vars, workflow_vars, llm_vars>>

\* line 542: filter_it_relevant_content runs and returns
CFilter(i) ==
    /\ inv[i].pc = "extracted"
    /\ LET result == FilterLoop(heap, inv[i].articles_with_content, <<>>)
       IN  /\ heap' = result.articles
           /\ inv' = [inv EXCEPT ![i].relevant_articles = result.filtered,
                                 ![i].pc = "filtered"]
    /\ UNCHANGED <<scorer_vars, request_vars, search_vars, workflow_vars, llm_vars>>

\* lines 543-574: the emptiness check, the summary and the response
CRespond(i) ==
    /\ inv[i].pc = "filtered"
    /\ inv' = [inv EXCEPT ![i].response = ResponseFor(heap, inv[i].relevant_articles),
                          ![i].pc = "done"]
    /\ UNCHANGED <<scorer_vars, request_vars, search_vars, workflow_vars, llm_vars, heap>>

\* NumInvocations requests have arrived at an agent that has no secondary
\* adapter and no GitHub client
InitConcurrent ==
    /\ topic = NoneValue
    /\ max_results = 0
    /\ google_api_key = FALSE
    /\ search_engine_id = FALSE
    /\ github_client = FALSE
    /\ pc = "idle"
    /\ term_i = 0
    /\ articles = <<>>
    /\ calls = <<>>
    /\ WorkflowFresh
    /\ ScorerIdle
    /\ openai_client = FALSE
    /\ llm_calls = 0
    /\ heap = <<>>
    /\ inv = [i \in Invocations |-> NewInvocation]

NextConcurrent ==
    \/ \E i \in Invocations : CSearch(i)
    \/ \E i \in Invocations : CExtract(i)
    \/ \E i \in Invocations : CFilter(i)
    \/ \E i \in Invocations : CRespond(i)

SpecConcurrent == InitConcurrent /\ [][NextConcurrent]_vars

\* one invocation on its own: what it ends with for the given outcomes of its
\* queries and of its GETs, starting from an agent that holds no article
RunAlone(outcomes, fetch_ok) ==
    LET found     == Allocate(<<>>, 1, SearchResult(ConcRequest, outcomes))
        extracted == ExtractLoop(found.heap, found.ids, fetch_ok, <<>>)
        filtered  == FilterLoop(extracted.heap, extracted.extracted, <<>>)
    IN  [outcomes |-> outcomes, fetch_ok |-> fetch_ok,
         relevant_articles |->
             [k \in 1..Len(filtered.filtered) |-> filtered.articles[filtered.filtered[k]]],
         response |-> ResponseFor(filtered.articles, filtered.filtered)]

\* the runs of one invocation on its own, for every outcome of its queries and
\* of its GETs
AloneRuns == {RunAlone(outcomes, fetch_ok) : outcomes \in ConcSearchOutcomes, fetch_ok \in BOOLEAN}

(***************************************************************************)
(* The scorer on its own: every article of ScorerInputs is scored, and one *)
(* more occurrence of a vocabulary keyword is then added to its content.   *)
(***************************************************************************)
\* keys an input article may lack are drawn as Absent and then left out of the dict
Absent == "<absent>"

MakeArticle(title, abstract, content, source) ==
    LET given == {p \in { <<"title", title>>, <<"summary", abstract>>,
                          <<"content", content>>, <<"source", source>> } : p[2] # Absent}
    IN  [key \in {p[1] : p \in given} |-> (CHOOSE p \in given : p[1] = key)[2]]

ShortTitles == {Absent, "Annual Report", "NIST Controls", DemoTitle1}

ShortSummaries == {Absent, "Weather notes", DemoSummary1}

ShortContents == {Absent, "", "cloud access", "Secure the Pipeline"}

SourceLabels ==
    {Absent, "NIST CSRC", "Google Search", DemoSource, "DEMO", "xdEmOx", "dem o"}

\* content that fills the scored window exactly, a keyword at its end or at its start,
\* and content whose keyword lies just beyond the window
LongContents ==
    { SubSeq(F1000, 1, 996) \o "sbom", "sbom" \o SubSeq(F1000, 1, 996), F1000 \o "sbom" }

ScorerInputs ==
    {MakeArticle(t, s, c, src) :
        t \in ShortTitles, s \in ShortSummaries,
        c \in ShortContents \cup {DemoContent1}, src \in SourceLabels}
    \cup {MakeArticle("NIST Controls", Absent, c, "NIST CSRC") : c \in LongContents}

\* the articles to whose content a keyword is added
KeywordInputs ==
    {MakeArticle(t, s, c, src) :
        t \in {Absent, "NIST Controls"}, s \in {Absent, "Weather notes"},
        c \in ShortContents, src \in {"NIST CSRC", DemoSource}}
    \cup {MakeArticle("NIST Controls", Absent, c, "NIST CSRC") : c \in LongContents}

\* positions at which a keyword is added: the first MaxInsertPos ones and the end
MaxInsertPos == 3

InsertPositions(content) ==
    {p \in 0..Len(content) : p <= MaxInsertPos \/ p = Len(content)}

\* content with one more occurrence of keyword at position p
Inserted(content, keyword, p) == SliceTo(content, p) \o keyword \o SliceFrom(content, p)

\* no invocation is running
PipelineIdle ==
    /\ topic = NoneValue
    /\ max_results = 0
    /\ google_api_key = FALSE
    /\ search_engine_id = FALSE
    /\ pc = "idle"
    /\ term_i = 0
    /\ articles = <<>>
    /\ calls = <<>>
    /\ WorkflowFresh
    /\ github_client = FALSE
    /\ AgentIdle

InitScore ==
    /\ PipelineIdle
    /\ doc \in ScorerInputs
    /\ final_score = -1
    /\ matches_before = -1
    /\ matches_after = -1
    /\ added_at = -1
    /\ spc = "ready"

\* one call of _keyword_based_relevance(doc)
Score ==
    /\ spc = "ready"
    /\ LET matches == Matches(doc)
       IN  /\ matches_before' = matches
           /\ final_score' = FinalScore(matches, doc)
    /\ spc' = "scored"
    /\ UNCHANGED <<doc, matches_after, added_at, request_vars, llm_vars, conc_vars, search_vars, workflow_vars>>

\* one more occurrence of keywords[k] is put into the content at position p, and
\* the changed article is scored
AddKeyword(k, p) ==
    /\ spc = "scored"
    /\ LET content == Get(doc, "content", "")
           changed == Inserted(content, keywords[k], p)
           article == [key \in DOMAIN doc \cup {"content"} |->
                          IF key = "content" THEN changed ELSE doc[key]]
       IN  /\ doc' = article
           /\ matches_after' = Matches(article)
           /\ added_at' = IF p = Len(content) THEN "end" ELSE "inside"
    /\ spc' = "added"
    /\ UNCHANGED <<final_score, matches_before, request_vars, llm_vars, conc_vars, search_vars, workflow_vars>>

\* one call of _assess_it_relevance(doc), lines 340-344: the keyword scorer is
\* called; no call of the chat-completion collaborator is made
Assess ==
    /\ spc = "ready"
    /\ final_score' = AssessItRelevance(doc)
    /\ matches_before' = Matches(doc)
    /\ spc' = "assessed"
    /\ UNCHANGED <<doc, matches_after, added_at, request_vars, llm_vars, conc_vars,
                   search_vars, workflow_vars>>

\* _assess_it_relevance is about to be called, with or without an LLM client
InitAssess ==
    /\ topic = NoneValue
    /\ max_results = 0
    /\ google_api_key = FALSE
    /\ search_engine_id = FALSE
    /\ pc = "idle"
    /\ term_i = 0
    /\ articles = <<>>
    /\ calls = <<>>
    /\ WorkflowFresh
    /\ github_client = FALSE
    /\ openai_client \in BOOLEAN
    /\ llm_calls = 0
    /\ heap = <<>>
    /\ inv = <<>>
    /\ doc \in ScorerInputs
    /\ final_score = -1
    /\ matches_before = -1
    /\ matches_after = -1
    /\ added_at = -1
    /\ spc = "ready"

NextAssess == Assess

SpecAssess == InitAssess /\ [][NextAssess]_vars

NextScore == Score

SpecScore == InitScore /\ [][NextScore]_vars

InitKeyword ==
    /\ PipelineIdle
    /\ doc \in KeywordInputs
    /\ final_score = -1
    /\ matches_before = -1
    /\ matches_after = -1
    /\ added_at = -1
    /\ spc = "ready"

NextKeyword ==
    \/ Score
    \/ \E k \in 1..Len(keywords) :
          \E p \in InsertPositions(Get(doc, "content", "")) : AddKeyword(k, p)

SpecKeyword == InitKeyword /\ [][NextKeyword]_vars

(***************************************************************************)
(* Claims about the scorer                                                 *)
(***************************************************************************)

\* C7: score boundedness: whatever the article (any title, summary, content and
\* source, keys missing included), the score the scorer returns lies in [0.0, 1.0].
Thm_C7_ScoreBounded ==
    spc # "ready" => (final_score >= 0 /\ final_score <= ScoreOne)

\* C7 witness: an article without a source whose boosted score would exceed 1.0
\* has been scored, and the cap applied.
Wit_C7_CapApplied ==
    /\ spc = "scored"
    /\ "source" \notin DOMAIN doc
    /\ matches_before * ScoreBoost > ScoreOne
    /\ final_score = ScoreOne

\* "demo" occurs in s in some letter case
ContainsDemoAnyCase(s) ==
    \E i \in 1..(Len(s) - 3) :
        /\ SubSeq(s, i, i) \in {"d", "D"}
        /\ SubSeq(s, i + 1, i + 1) \in {"e", "E"}
        /\ SubSeq(s, i + 2, i + 2) \in {"m", "M"}
        /\ SubSeq(s, i + 3, i + 3) \in {"o", "O"}

\* C8: demo floor: every article whose source contains "demo" in any letter case
\* scores at least 0.8, whatever its title, summary and content.
Thm_C8_DemoFloor ==
    (spc # "ready" /\ ContainsDemoAnyCase(Get(doc, "source", "")))
        => final_score >= DemoFloor

\* C8 witness: an article with a mixed-case demo source and no keyword match at
\* all has been scored at 0.8 or more.
Wit_C8_DemoNoMatch ==
    /\ spc = "scored"
    /\ Get(doc, "source", "") = "xdEmOx"
    /\ matches_before = 0
    /\ final_score >= DemoFloor

\* C9 as stated: adding one more occurrence of a vocabulary keyword to the content,
\* at any position, never decreases the raw score matches / len(keywords).
CE_C9_MonotoneAnyPosition ==
    spc = "added" => matches_after >= matches_before

\* C9 amended: appending one more occurrence of a vocabulary keyword at the end of
\* the content never decreases the raw score matches / len(keywords).
Thm_C9_MonotoneAppend ==
    (spc = "added" /\ added_at = "end") => matches_after >= matches_before

\* C9 witness: a keyword was appended to the content and the raw score rose.
Wit_C9_AppendRaises ==
    /\ spc = "added"
    /\ added_at = "end"
    /\ matches_after > matches_before

(***************************************************************************)
(* Claims about the retrieval aggregator                                   *)
(***************************************************************************)
\* search_nist_updates has returned `articles`
SearchReturned == pc = "searched"

GoogleConfigured == google_api_key /\ search_engine_id

CallsOf(adapter) == {i \in DOMAIN calls : calls[i].adapter = adapter}

RECURSIVE SumReturned(_)
SumReturned(cs) == IF cs = <<>> THEN 0 ELSE Head(cs).returned + SumReturned(Tail(cs))

\* the size of the built-in fallback corpus
FallbackCorpusSize == 3

\* every primary query yielded nothing or failed, and the secondary adapter is
\* not configured
OnlyFallbackSupplies ==
    /\ ~GoogleConfigured
    /\ \A i \in CallsOf("csrc") : calls[i].returned = 0

\* C1: aggregator non-starvation: when only the fallback adapter can supply
\* documents, search_nist_updates returns exactly min(max_results, 3) documents.
Thm_C1_NonStarvation ==
    (SearchReturned /\ OnlyFallbackSupplies)
        => Len(articles) = Min(max_results, FallbackCorpusSize)

\* C1 witness: a primary query failed, another found a page without accepted
\* results, no secondary adapter, and 5 documents were asked for: 3 came back.
Wit_C1_FallbackOnly ==
    /\ SearchReturned /\ OnlyFallbackSupplies
    /\ max_results = 5
    /\ \E i, j \in CallsOf("csrc") : calls[i].failed /\ ~calls[j].failed /\ calls[j].limit > 0
    /\ Len(articles) = 3

\* the tier tried after call c is d
NextTierTried(c, d) ==
    IF c.adapter = "csrc" /\ c.query # PrimaryTerms(topic)[PrimaryTermCount]
    THEN /\ d.adapter = "csrc"
         /\ \E j \in 1..(PrimaryTermCount - 1) :
               c.query = PrimaryTerms(topic)[j] /\ d.query = PrimaryTerms(topic)[j + 1]
    ELSE IF c.adapter = "csrc" /\ GoogleConfigured
    THEN d.adapter = "google"
    ELSE d.adapter = "demo"

IsDocument(a) ==
    /\ {"title", "url", "date", "summary", "source"} \subseteq DOMAIN a
    /\ DOMAIN a \subseteq {"title", "url", "date", "summary", "source", "content"}

\* C4: the aggregator never raises for source failures: it always goes on to
\* its return, which is a sequence of documents; a failed adapter call counts
\* as zero results for that call only, and the tier after it is still tried.
Thm_C4_FailSoft ==
    /\ pc \in {"primary", "google", "demo"} => ENABLED NextSearch
    /\ SearchReturned =>
         /\ \A i \in DOMAIN articles : IsDocument(articles[i])
         /\ Len(articles) = Min(max_results, SumReturned(calls))
         /\ \A i \in DOMAIN calls :
               calls[i].failed =>
                  /\ calls[i].returned = 0
                  /\ i < Len(calls)
                  /\ NextTierTried(calls[i], calls[i + 1])

\* C4 witness: the first primary query failed, a later one supplied a document,
\* the secondary query failed and the fallback filled in.
Wit_C4_FailuresThenResults ==
    /\ SearchReturned
    /\ calls[1].failed
    /\ \E i \in CallsOf("csrc") : calls[i].returned > 0
    /\ \E i \in CallsOf("google") : calls[i].failed
    /\ \E i \in CallsOf("demo") : calls[i].returned > 0

InResult(a) == \E i \in DOMAIN articles : articles[i] = a

\* C5: the result is shorter than max_results only when the fallback adapter was
\* queried and all 3 fallback documents are in it; otherwise it has exactly
\* max_results documents.
Thm_C5_ShortOnlyBeyondCorpus ==
    SearchReturned =>
        IF Len(articles) < max_results
        THEN /\ CallsOf("demo") # {}
             /\ \A k \in DOMAIN demo_articles : InResult(demo_articles[k])
        ELSE Len(articles) = max_results

\* C5 witness: the primary tier supplied a document, the fallback all of its 3,
\* and the result is still shorter than asked for.
Wit_C5_ShortResult ==
    /\ SearchReturned
    /\ Len(articles) < max_results
    /\ \E i \in CallsOf("csrc") : calls[i].returned > 0
    /\ \A k \in DOMAIN demo_articles : InResult(demo_articles[k])

\* C6: the sequence search_nist_updates returns has at most max_results documents.
Thm_C6_AtMostMax ==
    SearchReturned => Len(articles) <= max_results

\* C6 witness: primary and secondary tiers each supplied all they were asked
\* for, and the result has exactly max_results documents.
Wit_C6_Full ==
    /\ SearchReturned
    /\ Len(articles) = max_results
    /\ \E i \in CallsOf("csrc") : calls[i].returned = calls[i].limit /\ calls[i].limit > 0
    /\ \E i \in CallsOf("google") : calls[i].returned = calls[i].limit

(***************************************************************************)
(* Claims about the filter, the extractor and run_workflow                 *)
(***************************************************************************)
\* C3: filter threshold: filter_it_relevant_content returns exactly the articles
\* whose score is strictly greater than 0.7, in input order; an article scoring
\* exactly 0.7 is excluded and every returned one carries relevance_score > 0.7.
Thm_C3_FilterThreshold ==
    pc = "filtered" =>
        /\ relevant_articles =
              SelectSeq(articles_with_content,
                        LAMBDA i : AssessItRelevance(articles[i]) > RelevanceThreshold)
        /\ \A n \in DOMAIN relevant_articles :
              LET a == articles[relevant_articles[n]]
              IN  /\ "relevance_score" \in DOMAIN a
                  /\ a.relevance_score > RelevanceThreshold
                  /\ a.relevance_score = AssessItRelevance(a)

\* C3 witness: the scores of the input are 0.9, 0.7, 0.8, 0.2 and the first and
\* third articles were retained.
Wit_C3_BoundaryExcluded ==
    /\ pc = "filtered"
    /\ Len(articles) = 4
    /\ [i \in 1..4 |-> AssessItRelevance(articles[i])] = <<27, 21, 24, 6>>
    /\ relevant_articles = <<1, 3>>

\* the step extract_content takes for the article at art_i
PassedThrough ==
    /\ articles' = articles
    /\ fetched' = fetched
    /\ articles_with_content' = Append(articles_with_content, art_i)

AtArticle == pc = "extract" /\ art_i <= Len(articles)

\* C10 as stated: every article whose content field is already set is emitted
\* unchanged, and no fetch is made for it.
CE_C10_SetContentPassedThrough ==
    [][(AtArticle /\ "content" \in DOMAIN articles[art_i]) => PassedThrough]_vars

\* C10 amended: every article whose content field is already set to a non-empty
\* string is emitted unchanged, and no fetch is made for it.
Thm_C10_FilledContentPassedThrough ==
    [][(AtArticle /\ "content" \in DOMAIN articles[art_i] /\ articles[art_i].content # "")
          => PassedThrough]_vars

\* C10 witness: a pre-filled article with a url was emitted after an article that
\* had to be fetched; its content is what it was and its url was not requested.
Wit_C10_PrefilledEmitted ==
    /\ pc = "extract"
    /\ art_i = 3
    /\ articles[2] = demo_articles[1]
    /\ Len(fetched) = 1
    /\ fetched[1] # demo_articles[1].url
    /\ articles_with_content = <<1, 2>>

(***************************************************************************)
(* Claims about the extractor's limit                                      *)
(***************************************************************************)
\* the articles extract_content has fetched a page for and kept
FetchedAndKept ==
    {i \in 1..Len(articles_with_content) :
        LET a == articles[articles_with_content[i]]
        IN  \E j \in 1..Len(fetched) : fetched[j] = Get(a, "url", "")}

\* C11: when the text extracted from a fetched page is longer than 50,000
\* characters, the content stored on the document is exactly its first 50,000
\* characters; shorter extracted text is stored whole.
Thm_C11_Truncation ==
    \A i \in FetchedAndKept :
        LET a == articles[articles_with_content[i]]
            text == PageText(a.url)
        IN  IF Len(text) > 50000
            THEN Len(a.content) = 50000 /\ a.content = SubSeq(text, 1, 50000)
            ELSE a.content = text

\* C11 witness: extract_content has returned after storing the first 50,000
\* characters of a longer page, a page of exactly 50,000 characters and a short
\* page whole.
Wit_C11_LongPageCut ==
    /\ pc = "extracted"
    /\ \E i, j, k \in 1..Len(articles) :
          /\ "content" \in DOMAIN articles[i] /\ "content" \in DOMAIN articles[j]
          /\ "content" \in DOMAIN articles[k]
          /\ Len(PageText(articles[i].url)) = 50004 /\ Len(articles[i].content) = 50000
          /\ articles[j].content = PageAtLimit /\ articles[j].url = NIST_BASE_URL \o ResultAtLimit.href
          /\ articles[k].content = PageControls

(***************************************************************************)
(* Claims about the report                                                 *)
(***************************************************************************)
\* generate_summary has returned a report
Rendered == summary # <<>>

\* the articles the report was rendered from
RenderedFrom == [i \in 1..Len(relevant_articles) |-> articles[relevant_articles[i]]]

IsFindingHeading(line) == StartsWith(line, "### ")

IsCitationEntry(line) == Contains("](", line)

\* the positions, in the report, of its finding headings and of its citation
\* entries, in report order
FindingPositions ==
    SelectSeq([k \in 1..Len(summary) |-> k], LAMBDA k : IsFindingHeading(summary[k]))

CitationPositions ==
    SelectSeq([k \in 1..Len(summary) |-> k], LAMBDA k : IsCitationEntry(summary[k]))

TitleShown(article) == Get(article, "title", "Untitled")

\* C12: the finding blocks and the citation entries of the report are numbered
\* 1..n in input order; an article earlier in the input is rendered before a
\* later one, whatever their scores and dates.
Thm_C12_RenderOrder ==
    Rendered =>
        /\ \A k \in 1..Len(FindingPositions) :
              StartsWith(summary[FindingPositions[k]], "### " \o ToString(k) \o ". ")
        /\ \A k \in 1..Len(CitationPositions) :
              StartsWith(summary[CitationPositions[k]], ToString(k) \o ". [")
        /\ \A i, j \in 1..Len(RenderedFrom) :
              i < j =>
                 /\ \E p, q \in 1..Len(summary) :
                       /\ p < q
                       /\ summary[p] = "### " \o ToString(i) \o ". " \o TitleShown(RenderedFrom[i])
                       /\ summary[q] = "### " \o ToString(j) \o ". " \o TitleShown(RenderedFrom[j])
                 /\ \E p, q \in 1..Len(summary) :
                       /\ p < q
                       /\ StartsWith(summary[p], ToString(i) \o ". [" \o TitleShown(RenderedFrom[i]) \o "]")
                       /\ StartsWith(summary[q], ToString(j) \o ". [" \o TitleShown(RenderedFrom[j]) \o "]")

\* C12 witness: a report was rendered from three articles of which the first has
\* the lowest score and the last has the earliest date.
Wit_C12_LowScoreFirst ==
    /\ Rendered
    /\ Len(RenderedFrom) = 3
    /\ RenderedFrom[1].relevance_score < RenderedFrom[2].relevance_score
    /\ RenderedFrom[2].relevance_score < RenderedFrom[3].relevance_score
    /\ RenderedFrom[3] = WithKey(demo_articles[1], "relevance_score", 30)
    /\ "date" \notin DOMAIN RenderedFrom[2]

\* C16: the report of n scored articles states articles_processed: n in its
\* header and holds exactly n finding blocks and exactly n citation entries, one
\* per article, each showing the article's title (and its url in the citation).
Thm_C16_ReportComplete ==
    Rendered =>
        LET n == Len(RenderedFrom)
        IN  /\ summary[1] = "---" /\ summary[6] = "---"
            /\ \E h \in 2..5 : summary[h] = "articles_processed: " \o ToString(n)
            /\ Len(FindingPositions) = n
            /\ Len(CitationPositions) = n
            /\ \A i \in 1..n :
                  /\ Contains(TitleShown(RenderedFrom[i]), summary[FindingPositions[i]])
                  /\ Contains("[" \o TitleShown(RenderedFrom[i]) \o "]",
                              summary[CitationPositions[i]])
                  /\ "url" \in DOMAIN RenderedFrom[i] =>
                        Contains("(" \o RenderedFrom[i].url \o ")", summary[CitationPositions[i]])

\* C16 witness: a report of three articles, one of them without a url and one
\* without a title, has three blocks and three citations.
Wit_C16_ThreeBlocks ==
    /\ Rendered
    /\ Len(RenderedFrom) = 3
    /\ Len(FindingPositions) = 3
    /\ Len(CitationPositions) = 3
    /\ \E i \in 1..3 : "url" \notin DOMAIN RenderedFrom[i]
    /\ \E i \in 1..3 : "title" \notin DOMAIN RenderedFrom[i]

\* C13: with only the fallback adapter available and max_results = 3, the
\* pipeline search -> extract -> filter -> render keeps all 3 fallback documents
\* and yields a report whose header states articles_processed: 3 and whose
\* citation list has exactly the 3 fallback titles in corpus order.
Thm_C13_FallbackEndToEnd ==
    (OnlyFallbackSupplies /\ max_results = 3 /\ pc \in {"publish", "done"}) =>
        /\ Len(articles) = 3
        /\ \A i \in 1..3 :
              /\ articles[i].title = demo_articles[i].title
              /\ articles[i].content = demo_articles[i].content
        /\ articles_with_content = <<1, 2, 3>>
        /\ relevant_articles = <<1, 2, 3>>
        /\ Rendered
        /\ summary[4] = "articles_processed: 3"
        /\ [k \in 1..Len(CitationPositions) |-> summary[CitationPositions[k]]]
             = << "1. [" \o DemoTitle1 \o "](https://csrc.nist.gov/publications/detail/sp/800-218a/final)",
                  "2. [" \o DemoTitle2 \o "](https://csrc.nist.gov/cyberframework/framework)",
                  "3. [" \o DemoTitle3 \o "](https://csrc.nist.gov/publications/detail/sp/800-53/rev-5/final)" >>

\* C13 witness: the scenario ran to its response: three primary queries that
\* supplied nothing, no secondary adapter, three documents asked for, and a
\* success response for three articles.
Wit_C13_ScenarioDone ==
    /\ OnlyFallbackSupplies
    /\ max_results = 3
    /\ Cardinality(CallsOf("csrc")) = 3
    /\ pc = "done"
    /\ response.type = "WorkflowResponse"
    /\ response.articles_processed = 3
    /\ Rendered

\* C14: whenever at least one document passes the filter, run_workflow returns
\* a response with status "success" and articles_processed equal to the number
\* of filtered documents, whether publishing succeeds, fails or is not
\* configured.
Thm_C14_PublishFailureNonFatal ==
    (pc = "done" /\ relevant_articles # <<>>) =>
        /\ response.type = "WorkflowResponse"
        /\ response.status = "success"
        /\ response.articles_processed = Len(relevant_articles)

\* C14 witness: GitHub is configured, publishing failed, and the response is a
\* success for the two documents that passed the filter.
Wit_C14_PublishFailed ==
    /\ pc = "done"
    /\ github_client
    /\ Len(relevant_articles) = 2
    /\ response.type = "WorkflowResponse"
    /\ response.status = "success"
    /\ response.pr_url = "GitHub publishing failed - summary generated successfully"
    /\ response.articles_processed = 2

(***************************************************************************)
(* Claims about the tiers of the aggregator                                *)
(***************************************************************************)
\* what the calls before the i-th one returned in total
ReturnedBefore(i) == SumReturned(SubSeq(calls, 1, i - 1))

\* the secondary tier of search_nist_updates is behind the invocation
PastSecondary == pc \in {"demo", "searched"}

FromSecondary(a) == a.source = "Google Search"

\* C15: the secondary adapter is queried only when the accumulated count is
\* below max_results and both credentials are configured, and it is then asked
\* for exactly the shortfall; if a credential is missing no request is issued
\* and no document comes from it.
Thm_C15_SecondaryGating ==
    /\ Cardinality(CallsOf("google")) <= 1
    /\ \A i \in CallsOf("google") :
          /\ GoogleConfigured
          /\ ReturnedBefore(i) < max_results
          /\ calls[i].limit = max_results - ReturnedBefore(i)
          /\ calls[i].returned <= calls[i].limit
          /\ calls[i].failed => calls[i].returned = 0
    /\ (PastSecondary /\ GoogleConfigured
          /\ SumReturned(SelectSeq(calls, LAMBDA c : c.adapter = "csrc")) < max_results)
          => CallsOf("google") # {}
    /\ ~GoogleConfigured =>
          /\ CallsOf("google") = {}
          /\ \A i \in 1..Len(articles) : ~FromSecondary(articles[i])

\* C15 witness: six documents asked for, the primary tier found four, and the
\* secondary adapter was asked for two and returned two.
Wit_C15_AskedForShortfall ==
    /\ max_results = 6
    /\ \E i \in CallsOf("google") :
          /\ ReturnedBefore(i) = 4
          /\ calls[i].limit = 2
          /\ calls[i].returned = 2

\* the tier a document came from, by its source label
TierRank(a) ==
    IF a.source = "NIST CSRC" THEN 1
    ELSE IF a.source = "Google Search" THEN 2
    ELSE 3

\* C18: in every sequence search_nist_updates returns, the primary documents
\* come before all secondary documents, which come before all fallback
\* documents; when the primary adapter yielded a publication, the first
\* returned document is a primary one with source 'NIST CSRC'.
Thm_C18_TierPriority ==
    SearchReturned =>
        /\ \A i, j \in 1..Len(articles) :
              i < j => TierRank(articles[i]) <= TierRank(articles[j])
        /\ (\E c \in CallsOf("csrc") : calls[c].returned > 0)
              => articles[1].source = "NIST CSRC"
        /\ \A i \in 1..Len(articles) :
              TierRank(articles[i]) = 3 => articles[i].source = DemoSource

\* C18 witness: a returned sequence with documents of all three tiers.
Wit_C18_ThreeTiers ==
    /\ SearchReturned
    /\ Len(articles) >= 3
    /\ TierRank(articles[1]) = 1
    /\ \E i \in 1..Len(articles) : TierRank(articles[i]) = 2
    /\ articles[Len(articles)].source = DemoSource

\* the calls of the primary adapter, in order
PrimaryCalls == SelectSeq(calls, LAMBDA c : c.adapter = "csrc")

\* C20: in one search_nist_updates invocation the primary adapter is queried at
\* most once per term and for at most the first 3 terms of the search-term
\* list, and once the accumulated count has reached max_results no further
\* primary query is issued.
Thm_C20_PrimaryBounded ==
    /\ Len(PrimaryCalls) <= 3
    /\ \A k \in 1..Len(PrimaryCalls) : PrimaryCalls[k].query = SearchTerms(topic)[k]
    /\ \A k, l \in 1..Len(PrimaryCalls) :
          k # l => PrimaryCalls[k].query # PrimaryCalls[l].query
    /\ \A i \in CallsOf("csrc") :
          /\ ReturnedBefore(i) < max_results
          /\ \A j \in 1..(i - 1) : calls[j].adapter = "csrc"

\* C20 witness: the third primary query brought the count to max_results = 6,
\* and the invocation returned without a fourth one.
Wit_C20_ReachedAfterThird ==
    /\ SearchReturned
    /\ max_results = 6
    /\ Len(PrimaryCalls) = 3
    /\ SumReturned(PrimaryCalls) = 6
    /\ Len(calls) = 3

\* C19: assessing the relevance of one document with a configured LLM client
\* invokes the chat-completion collaborator exactly once and returns a float in
\* [0.0, 1.0].
CE_C19_LlmCalledOnce ==
    (spc = "assessed" /\ openai_client) =>
        /\ llm_calls = 1
        /\ 0 <= final_score /\ final_score <= ScoreOne

(***************************************************************************)
(* Claims about concurrent invocations                                     *)
(***************************************************************************)
\* the dicts the lists of invocation i refer to
Owned(i) == {inv[i].articles[k] : k \in 1..Len(inv[i].articles)}

Finished(i) == inv[i].pc = "done"

\* no dict is referred to by two invocations
NoSharedDocument ==
    \A i, j \in DOMAIN inv : i # j => Owned(i) \cap Owned(j) = {}

\* what another invocation wrote is not seen: until invocation i extracts, its
\* dicts are as search_nist_updates returned them, and until it filters, none of
\* them carries a relevance_score
NothingObserved ==
    \A i \in DOMAIN inv :
        /\ inv[i].pc = "extract" =>
              [k \in 1..Len(inv[i].articles) |-> heap[inv[i].articles[k]]]
                 = SearchResult(ConcRequest, inv[i].outcomes)
        /\ inv[i].pc \in {"extract", "extracted"} =>
              \A id \in Owned(i) : "relevance_score" \notin DOMAIN heap[id]

\* a finished invocation has the response and the documents of its run alone
AsWhenAlone ==
    \A i \in DOMAIN inv :
        Finished(i) =>
            \E alone \in AloneRuns :
                /\ alone.outcomes = inv[i].outcomes
                /\ alone.fetch_ok = inv[i].fetch_ok
                /\ alone.response = inv[i].response
                /\ alone.relevant_articles =
                      [k \in 1..Len(inv[i].relevant_articles) |-> heap[inv[i].relevant_articles[k]]]

\* an unfinished invocation stands at a step of run_workflow it can take
Runnable ==
    \A i \in DOMAIN inv :
        ~Finished(i) => inv[i].pc \in {"start", "extract", "extracted", "filtered"}

\* how far along run_workflow an invocation is
Stage(i) ==
    CASE inv[i].pc = "start"     -> 0
      [] inv[i].pc = "extract"   -> 1
      [] inv[i].pc = "extracted" -> 2
      [] inv[i].pc = "filtered"  -> 3
      [] inv[i].pc = "done"      -> 4

\* a step moves one invocation forward and leaves every other invocation, and
\* every dict another invocation refers to, as it was
OneAdvances ==
    \E i \in DOMAIN inv :
        /\ Stage(i)' > Stage(i)
        /\ \A j \in DOMAIN inv \ {i} :
              /\ inv'[j] = inv[j]
              /\ \A id \in Owned(j) : heap'[id] = heap[id]

\* no finished invocation ended with an exception
NoneRaised ==
    \A i \in DOMAIN inv : Finished(i) => inv[i].response.type = "WorkflowResponse"

\* C17 as stated: concurrent invocations on one agent all complete without
\* error and share no mutable document state: no dict of one invocation is
\* seen by another and each invocation's result equals its result when run alone.
CE_C17_AllWithoutError ==
    /\ [](NoSharedDocument /\ NothingObserved /\ AsWhenAlone /\ Runnable /\ NoneRaised)
    /\ [][OneAdvances]_vars

\* C17 amended: concurrent invocations on one agent all complete, each with the
\* response or the error of its run alone, and share no mutable document state:
\* every step moves one invocation forward and changes no other invocation's dicts.
Thm_C17_InvocationIsolation ==
    /\ [](NoSharedDocument /\ NothingObserved /\ AsWhenAlone /\ Runnable)
    /\ [][OneAdvances]_vars

\* C17 witness: the second invocation has finished with three scored fallback
\* documents while the first, which got a primary article and two fallback
\* documents, has searched and not yet extracted.
Wit_C17_Interleaved ==
    /\ DOMAIN inv # {}
    /\ Finished(2)
    /\ inv[2].response.type = "WorkflowResponse"
    /\ inv[2].response.articles_processed = 3
    /\ \A id \in Owned(2) : heap[id].source = DemoSource /\ heap[id].relevance_score = 30
    /\ inv[1].pc = "extract"
    /\ heap[inv[1].articles[1]].source = "NIST CSRC"
    /\ heap[inv[1].articles[2]].source = DemoSource

(***************************************************************************)
(* Claims about the extractor's drop policy                                *)
(***************************************************************************)
\* the step for articles[art_i] emitted it
Emitted ==
    /\ articles_with_content' = Append(articles_with_content, art_i)
    /\ HasContent(articles'[art_i])

\* the step for articles[art_i] omitted it and left it as it was
Omitted ==
    /\ articles_with_content' = articles_with_content
    /\ articles' = articles

\* the step extract_content takes for an article that needs a fetch: the
\* article is emitted with the text of its page, cut at the limit, or it is
\* omitted untouched; it is omitted when it has no url or its page has no text
DropOrWhole ==
    (AtArticle /\ ~HasContent(articles[art_i])) =>
        LET url == Get(articles[art_i], "url", "")
        IN  /\ Omitted \/ (Emitted /\ articles'[art_i].content = SliceTo(PageText(url), 50000))
            /\ (url = "" \/ PageText(url) = "") => Omitted
            /\ Omitted \/ fetched' = Append(fetched, url)

\* the output is a subsequence of the input, in order, of documents with content
OrderedWithContent ==
    /\ \A i \in 1..Len(articles_with_content) :
          /\ articles_with_content[i] \in 1..Len(articles)
          /\ HasContent(articles[articles_with_content[i]])
    /\ \A i, j \in 1..Len(articles_with_content) :
          i < j => articles_with_content[i] < articles_with_content[j]

\* C21: extract_content never raises; its output is an order-preserving
\* subsequence of its input in which every document has non-empty content, and
\* a document needing a fetch is omitted, untouched, whenever its fetch fails,
\* its url is empty or the extracted text is empty.
Thm_C21_DropPolicy ==
    /\ [](OrderedWithContent /\ response = NoResponse)
    /\ [][DropOrWhole]_vars

\* C21 witness: extract_content has returned two of three documents: the first
\* was fetched and kept, the second was fetched, failed and is left without
\* content, the third was pre-filled.
Wit_C21_FailedFetchDropped ==
    /\ pc = "extracted"
    /\ Len(articles) = 3
    /\ articles_with_content = <<1, 3>>
    /\ Len(fetched) = 2
    /\ articles[2] = ArticleSp80053
    /\ articles[3] = demo_articles[1]

(***************************************************************************)
(* Claims about the relevance_score field within one run_workflow          *)
(***************************************************************************)
HasScore(article) == "relevance_score" \in DOMAIN article

Retained == {relevant_articles[k] : k \in 1..Len(relevant_articles)}

\* the documents that carry a score are the documents the filter retained
ScoredIffRetained ==
    \A i \in 1..Len(articles) : HasScore(articles[i]) <=> i \in Retained

\* a step that gives a document a score, or changes or removes its score, is
\* the filter step, and the document had no score before it
ScoreWrittenByFilterOnce ==
    \A i \in 1..Len(articles) :
        (/\ i <= Len(articles')
         /\ \/ HasScore(articles'[i]) # HasScore(articles[i])
            \/ /\ HasScore(articles[i]) /\ HasScore(articles'[i])
               /\ articles'[i].relevance_score # articles[i].relevance_score)
           => /\ pc = "extracted" /\ pc' = "filtered"
              /\ ~HasScore(articles[i])

\* rendering and publishing leave the documents as the filter left them
KeptAfterFilter ==
    pc \in {"filtered", "summary", "publish"} => articles' = articles

\* C22: within one run_workflow invocation each document's relevance_score is
\* written at most once, only by the filter step and only for documents it
\* retains, and is not changed by rendering or publishing afterwards.
Thm_C22_ScoreWrittenOnce ==
    /\ []ScoredIffRetained
    /\ [][ScoreWrittenByFilterOnce /\ KeptAfterFilter]_vars

\* C22 witness: the workflow has ended with a response after the filter kept
\* one document with its score and excluded another, which has content and no
\* score.
Wit_C22_ExcludedUnscored ==
    /\ pc = "done"
    /\ response.type = "WorkflowResponse"
    /\ \E i, j \in 1..Len(articles) :
          /\ HasScore(articles[i])
          /\ HasContent(articles[j]) /\ ~HasScore(articles[j])
          /\ j \in {articles_with_content[k] : k \in 1..Len(articles_with_content)}

\* C23: every document in the result of search_nist_updates has a non-empty
\* title, whichever adapter produced it.
CE_C23_TitleNonEmpty ==
    SearchReturned => \A i \in 1..Len(articles) : Get(articles[i], "title", "") # ""

GoogleCalls == SelectSeq(calls, LAMBDA c : c.adapter = "google")

\* C25: the k-th primary query of an invocation is the k-th default term with
\* limit max_results // 3, whatever the topic: a caller-supplied topic is never
\* sent to the primary adapter; it is sent to the secondary adapter only.
Thm_C25_TopicIndependence ==
    /\ \A k \in 1..Len(PrimaryCalls) :
          /\ k <= 3
          /\ PrimaryCalls[k].query = NIST_SEARCH_TERMS[k]
          /\ PrimaryCalls[k].limit = max_results \div 3
          /\ Truthy(topic) => PrimaryCalls[k].query # topic
    /\ \A k \in 1..Len(GoogleCalls) :
          GoogleCalls[k].query =
              "NIST SP 800 " \o (IF Truthy(topic) THEN topic ELSE "cybersecurity framework")
                  \o " site:nist.gov"
    /\ \A i \in 1..Len(articles) :
          articles[i].source = "NIST CSRC" =>
              \E k \in 1..3 :
                  articles[i].summary = "NIST publication related to " \o NIST_SEARCH_TERMS[k]

\* C25 witness: an invocation with a topic has returned after three primary
\* queries, which found two documents, and one secondary query.
Wit_C25_TopicGiven ==
    /\ SearchReturned
    /\ topic = "zero trust"
    /\ Len(PrimaryCalls) = 3
    /\ Len(GoogleCalls) = 1
    /\ \E i, j \in 1..Len(articles) :
          i # j /\ articles[i].source = "NIST CSRC" /\ articles[j].source = "NIST CSRC"

FromPrimary == {i \in 1..Len(articles) : articles[i].source = "NIST CSRC"}

\* C26: each primary query is limited to max_results // 3 documents, so the
\* primary tier contributes at most 3 * (max_results // 3) documents; for
\* max_results of 1 or 2 it contributes none and the whole result comes from the
\* secondary and fallback tiers.
Thm_C26_PerTermLimit ==
    /\ \A k \in 1..Len(PrimaryCalls) :
          /\ PrimaryCalls[k].limit = max_results \div 3
          /\ PrimaryCalls[k].returned <= max_results \div 3
    /\ Cardinality(FromPrimary) <= 3 * (max_results \div 3)
    /\ max_results \in {1, 2} =>
          /\ FromPrimary = {}
          /\ SearchReturned =>
                /\ Len(articles) = max_results
                /\ \A i \in 1..Len(articles) :
                      articles[i].source \in {"Google Search", DemoSource}

\* C26 witness: with max_results = 2 the three primary queries were answered
\* and gave nothing; the result is one secondary and one fallback document.
Wit_C26_SmallRequest ==
    /\ SearchReturned
    /\ max_results = 2
    /\ Len(PrimaryCalls) = 3
    /\ \A k \in 1..3 : ~PrimaryCalls[k].failed /\ PrimaryCalls[k].returned = 0
    /\ articles[1].source = "Google Search"
    /\ articles[2].source = DemoSource

(***************************************************************************)
(* Claims about the fallback tier within run_workflow                      *)
(***************************************************************************)
Searching == pc \in {"primary", "google", "demo"}

ZeroRetrieved == RaisedInTry(HTTPException(404, "No NIST updates found"))

\* C27: for every max_results > 0 and every adapter outcome, search_nist_updates
\* returns at least one document, the fallback adapter is queried at most once
\* per invocation, and run_workflow never reaches its "zero retrieved" outcome.
Thm_C27_NeverEmpty ==
    max_results > 0 =>
        /\ ~Searching => Len(articles) >= 1
        /\ Cardinality(CallsOf("demo")) <= 1
        /\ \A i \in CallsOf("demo") : calls[i].limit < max_results \/ calls[i].returned >= 1
        /\ response # ZeroRetrieved

\* C27 witness: every primary query and the secondary query failed, the
\* fallback adapter was queried once and run_workflow went on to extraction
\* with three documents.
Wit_C27_AllSourcesFailed ==
    /\ pc = "extract"
    /\ max_results = 3
    /\ Cardinality(CallsOf("csrc")) = 3
    /\ Cardinality(CallsOf("google")) = 1
    /\ \A i \in CallsOf("csrc") \cup CallsOf("google") : calls[i].failed
    /\ Cardinality(CallsOf("demo")) = 1
    /\ Len(articles) = 3

ZeroRelevant ==
    RaisedInTry(HTTPException(404, "No relevant articles found for IT organizations"))

Extracted == {articles_with_content[k] : k \in 1..Len(articles_with_content)}

\* articles[i] is a document of the fallback corpus as _get_demo_nist_data built
\* it, with or without a relevance_score
AsBuilt(i) ==
    \E k \in 1..Len(demo_articles) :
        /\ DOMAIN articles[i] \ {"relevance_score"} = DOMAIN demo_articles[k]
        /\ \A key \in DOMAIN demo_articles[k] : articles[i][key] = demo_articles[k][key]

\* C28: every demo-sourced document is passed through extraction unchanged,
\* scores exactly 1.0 and is retained by the filter; run_workflow reaches its
\* "zero relevant after filtering" outcome only when the aggregated result
\* contains no fallback document.
Thm_C28_FallbackSurvives ==
    /\ \A i \in 1..Len(articles) :
          IsDemo(articles[i]) =>
              /\ AsBuilt(i)
              /\ pc \in {"extracted", "filtered", "summary", "publish", "done"} =>
                    i \in Extracted
              /\ pc \in {"filtered", "summary", "publish", "done"} =>
                    /\ i \in Retained
                    /\ articles[i].relevance_score = ScoreOne
    /\ response = ZeroRelevant =>
          /\ \A i \in 1..Len(articles) : ~IsDemo(articles[i])
          /\ Len(articles) = max_results

\* C28 witness: run_workflow has answered for a result of one secondary and one
\* fallback document: the secondary document was extracted and excluded by the
\* filter, the fallback document was retained with score 1.0.
Wit_C28_OnlyFallbackKept ==
    /\ pc = "done"
    /\ response.type = "WorkflowResponse"
    /\ Len(articles) = 2
    /\ articles[1].source = "Google Search"
    /\ Extracted = {1, 2}
    /\ Retained = {2}
    /\ IsDemo(articles[2])
    /\ articles[2].relevance_score = ScoreOne

\* C2: the two emptiness outcomes reach the caller as not-found (404)
\* conditions, each with its own message, and only internal failures as the
\* generic server error (500).
CE_C2_EmptinessIsNotFound ==
    pc = "done" =>
        /\ articles = <<>> =>
              response = HTTPException(404, "No NIST updates found")
        /\ (articles # <<>> /\ relevant_articles = <<>>) =>
              response = HTTPException(404, "No relevant articles found for IT organizations")
        /\ (articles # <<>> /\ relevant_articles # <<>>) =>
              response.type = "WorkflowResponse"

====
